---- MODULE Spec2Model ----
(***************************************************************************)
(* A model of apply_diff_logic_smart (src/app.py), the tolerant patch      *)
(* engine of streamdiff.  Text is modelled as a sequence of one-character  *)
(* strings, so that strip, splitlines, startswith, the header regular      *)
(* expression and the SequenceMatcher ratio are computed, not assumed.     *)
(* One behaviour of the model is one call of the function: Init draws the  *)
(* two text arguments, and every action is one step of the function's      *)
(* control flow (one loop iteration, one branch, one return).              *)
(*                                                                         *)
(* Python's None is modelled as the empty sequence << >> and a present     *)
(* value x as the one-element sequence << x >>, where a value may be None. *)
(***************************************************************************)
EXTENDS Integers, Sequences, FiniteSets, TLC

VARIABLES
    pc,                   \* position in apply_diff_logic_smart
    diff_content,         \* argument: the diff text
    original_content,     \* argument: the original text
    filename,             \* the resolved filename (reporting only)
    hunks,                \* the parsed hunks, in parse order
    hunk_no,              \* index in hunks of the hunk of the for loop
    original_lines,       \* original_content.splitlines(keepends=True)
    original_line_index,  \* the cursor into original_lines (0-indexed)
    original_start_line,  \* 0-indexed start of the current hunk
    hunk_lines_index,     \* index of the current line of the hunk (0-indexed)
    new_lines,            \* the emitted lines
    mismatches_warnings,  \* the mismatch warnings recorded so far
    result                \* the returned tuple, << >> until the call returns

vars == << pc, diff_content, original_content, filename, hunks, hunk_no,
           original_lines, original_line_index, original_start_line,
           hunk_lines_index, new_lines, mismatches_warnings, result >>

----------------------------------------------------------------------------
(* Bounds of the model. *)

MaxOrigLines == 2
MaxDiffLines == 3

----------------------------------------------------------------------------
(* Text primitives of Python's str, on sequences of characters. *)

NL == "\n"

Whitespace == {" ", NL}

Digits == {"0", "1", "2", "3", "4", "5", "6", "7", "8", "9"}

DigitVal(c) ==
    CASE c = "0" -> 0 [] c = "1" -> 1 [] c = "2" -> 2 [] c = "3" -> 3
      [] c = "4" -> 4 [] c = "5" -> 5 [] c = "6" -> 6 [] c = "7" -> 7
      [] c = "8" -> 8 [] c = "9" -> 9

\* s[n:]
Drop(s, n) == SubSeq(s, n + 1, Len(s))

\* s.startswith(p)
StartsWith(s, p) == Len(s) >= Len(p) /\ SubSeq(s, 1, Len(p)) = p

RECURSIVE LStrip(_)
LStrip(s) ==
    IF s # << >> /\ Head(s) \in Whitespace THEN LStrip(Tail(s)) ELSE s

RECURSIVE RStrip(_)
RStrip(s) ==
    IF s # << >> /\ s[Len(s)] \in Whitespace
    THEN RStrip(SubSeq(s, 1, Len(s) - 1)) ELSE s

\* s.strip()
Strip(s) == RStrip(LStrip(s))

\* s.rstrip('\n')
RECURSIVE RStripNL(_)
RStripNL(s) ==
    IF s # << >> /\ s[Len(s)] = NL
    THEN RStripNL(SubSeq(s, 1, Len(s) - 1)) ELSE s

\* Position of the first line break of s, 0 when there is none.
RECURSIVE FirstNL(_, _)
FirstNL(s, i) ==
    IF i > Len(s) THEN 0 ELSE IF s[i] = NL THEN i ELSE FirstNL(s, i + 1)

\* s.splitlines(keepends): a line ends at each line break; a last line
\* without a line break is a line; the empty text has no lines.
RECURSIVE SplitLines(_, _)
SplitLines(s, keepends) ==
    IF s = << >> THEN << >>
    ELSE LET i == FirstNL(s, 1) IN
         IF i = 0 THEN << s >>
         ELSE << SubSeq(s, 1, IF keepends THEN i ELSE i - 1) >>
                 \o SplitLines(Drop(s, i), keepends)

\* "".join(ss)
RECURSIVE Join(_)
Join(ss) == IF ss = << >> THEN << >> ELSE Head(ss) \o Join(Tail(ss))

\* "\n".join(ss)
RECURSIVE JoinNL(_)
JoinNL(ss) ==
    IF ss = << >> THEN << >>
    ELSE IF Len(ss) = 1 THEN Head(ss)
    ELSE Head(ss) \o << NL >> \o JoinNL(Tail(ss))

----------------------------------------------------------------------------
(* difflib.SequenceMatcher(None, a, b).ratio(), without junk (the texts    *)
(* are far shorter than the 200 characters at which autojunk sets in).     *)

\* Length of the common run of a from i and b from j, inside a[..ahi], b[..bhi].
RECURSIVE CommonRun(_, _, _, _, _, _)
CommonRun(a, i, ahi, b, j, bhi) ==
    IF i <= ahi /\ j <= bhi /\ a[i] = b[j]
    THEN 1 + CommonRun(a, i + 1, ahi, b, j + 1, bhi)
    ELSE 0

\* find_longest_match: the longest block, of those the one that starts
\* earliest in a, of those the one that starts earliest in b.
FindLongestMatch(a, alo, ahi, b, blo, bhi) ==
    LET Blocks == { << i, j, CommonRun(a, i, ahi, b, j, bhi) >> :
                        i \in alo..ahi, j \in blo..bhi }
        Better(x, y) == \/ x[3] > y[3]
                        \/ x[3] = y[3] /\ x[1] < y[1]
                        \/ x[3] = y[3] /\ x[1] = y[1] /\ x[2] <= y[2]
    IN  IF Blocks = {} THEN << alo, blo, 0 >>
        ELSE CHOOSE x \in Blocks : \A y \in Blocks : Better(x, y)

\* The summed size of get_matching_blocks over a[alo..ahi], b[blo..bhi].
RECURSIVE MatchingSize(_, _, _, _, _, _)
MatchingSize(a, alo, ahi, b, blo, bhi) ==
    IF alo > ahi \/ blo > bhi THEN 0
    ELSE LET m == FindLongestMatch(a, alo, ahi, b, blo, bhi) IN
         IF m[3] = 0 THEN 0
         ELSE m[3] + MatchingSize(a, alo, m[1] - 1, b, blo, m[2] - 1)
                   + MatchingSize(a, m[1] + m[3], ahi, b, m[2] + m[3], bhi)

\* ratio_threshold = 0.8, as the fraction RatioNum / RatioDen.
RatioNum == 8
RatioDen == 10

\* matcher.ratio() >= ratio_threshold, with ratio = 2.0 * matches / length.
RatioAtLeastThreshold(a, b) ==
    IF Len(a) + Len(b) = 0 THEN TRUE
    ELSE 2 * MatchingSize(a, 1, Len(a), b, 1, Len(b)) * RatioDen
             >= RatioNum * (Len(a) + Len(b))

is_line_similar(line1, line2) ==
    IF Strip(line1) = << >> /\ Strip(line2) = << >> THEN TRUE
    ELSE IF Strip(line1) = << >> \/ Strip(line2) = << >> THEN FALSE
    ELSE RatioAtLeastThreshold(Strip(line1), Strip(line2))

----------------------------------------------------------------------------
(* The hunk header regular expression of re.match:                         *)
(*   @@ -(\d+)(?:,(\d+))? \+(\d+)(?:,(\d+))? @@.*                          *)

\* The end of the run of digits of s that starts at i (i - 1 if none).
RECURSIVE DigitsEnd(_, _)
DigitsEnd(s, i) ==
    IF i <= Len(s) /\ s[i] \in Digits THEN DigitsEnd(s, i + 1) ELSE i - 1

\* int() of the digits s[i..j].
RECURSIVE IntOf(_, _, _)
IntOf(s, i, j) ==
    IF j < i THEN 0 ELSE IntOf(s, i, j - 1) * 10 + DigitVal(s[j])

\* (\d+)(?:,(\d+))? at position i of s: the match fails (ok FALSE) without
\* a first number; the second number is None (<< >>) when the group is
\* absent; next is the position after the match.
NumberPair(s, i) ==
    LET e1 == DigitsEnd(s, i)
        hasSecond == /\ e1 + 1 <= Len(s)
                     /\ s[e1 + 1] = ","
                     /\ DigitsEnd(s, e1 + 2) >= e1 + 2
        e2 == IF hasSecond THEN DigitsEnd(s, e1 + 2) ELSE e1
    IN  [ ok     |-> e1 >= i,
          first  |-> IntOf(s, i, e1),
          second |-> IF hasSecond THEN << IntOf(s, e1 + 2, e2) >> ELSE << >>,
          next   |-> e2 + 1 ]

\* header_match and its four groups; a missing count defaults to 1.
HeaderMatch(header) ==
    LET pre  == << "@", "@", " ", "-" >>
        mid  == << " ", "+" >>
        post == << " ", "@", "@" >>
        p1   == NumberPair(header, Len(pre) + 1)
        rest1 == Drop(header, p1.next - 1)
        p2   == NumberPair(header, p1.next + Len(mid))
        rest2 == Drop(header, p2.next - 1)
        ok   == /\ StartsWith(header, pre)
                /\ p1.ok
                /\ StartsWith(rest1, mid)
                /\ p2.ok
                /\ StartsWith(rest2, post)
    IN  IF ok
        THEN [ ok |-> TRUE,
               original_start_line |-> p1.first,
               original_line_count |-> IF p1.second # << >> THEN p1.second[1] ELSE 1,
               modified_start_line |-> p2.first,
               modified_line_count |-> IF p2.second # << >> THEN p2.second[1] ELSE 1 ]
        ELSE [ ok |-> FALSE,
               original_start_line |-> 0, original_line_count |-> 0,
               modified_start_line |-> 0, modified_line_count |-> 0 ]

----------------------------------------------------------------------------
(* Parsing of the diff text into hunks (the first loop of the function).   *)

FilenameMarker == << "+", "+", "+", " ", "b", "/" >>
HunkMarker == << "@", "@" >>

\* diff_content.strip().splitlines()
DiffLines(diff) == SplitLines(Strip(diff), FALSE)

\* The state of the parse loop after the lines ls, from the state st:
\* hunks, current_hunk (None or a hunk), target_filename (None or a name).
RECURSIVE ParseLoop(_, _)
ParseLoop(ls, st) ==
    IF ls = << >> THEN st
    ELSE LET line == Head(ls) IN
         IF StartsWith(line, FilenameMarker)
         THEN ParseLoop(Tail(ls),
                  [ st EXCEPT !.target_filename = << Drop(line, 6) >>,
                              !.filename = IF @ = << >> THEN << Drop(line, 6) >> ELSE @ ])
         ELSE IF StartsWith(line, HunkMarker)
         THEN ParseLoop(Tail(ls),
                  [ st EXCEPT !.hunks = @ \o st.current_hunk,
                              !.current_hunk = << [ header |-> line, lines |-> << >> ] >> ])
         ELSE IF st.current_hunk # << >>
         THEN ParseLoop(Tail(ls),
                  [ st EXCEPT !.current_hunk =
                        << [ @[1] EXCEPT !.lines = Append(@, line) ] >> ])
         ELSE ParseLoop(Tail(ls), st)

\* "in-memory-content"
SentinelFilename ==
    << "i", "n", "-", "m", "e", "m", "o", "r", "y", "-",
       "c", "o", "n", "t", "e", "n", "t" >>

\* The hunks, with the last open hunk closed, and the names found.
ParseDiff(diff, filename_arg) ==
    LET st == ParseLoop(DiffLines(diff),
                  [ hunks |-> << >>, current_hunk |-> << >>,
                    target_filename |-> << >>, filename |-> filename_arg ])
    IN  [ hunks |-> st.hunks \o st.current_hunk,
          target_filename |-> st.target_filename,
          filename |-> IF st.filename = << >> /\ st.target_filename = << >>
                       THEN << SentinelFilename >>
                       ELSE st.filename ]

----------------------------------------------------------------------------
(* The arguments of a call. *)

\* All sequences over S of length at most n.
RECURSIVE SeqsUpTo(_, _)
SeqsUpTo(S, n) ==
    IF n = 0 THEN { << >> }
    ELSE LET shorter == SeqsUpTo(S, n - 1) IN
         shorter \cup { Append(q, x) : q \in shorter, x \in S }

\* Texts of original lines: "a", " a" (similar to "a", not equal to it) and
\* "ab" (ratio 2/3 against "a", below the threshold).
OrigTexts == { << "a" >>, << " ", "a" >>, << "a", "b" >> }

\* Original contents: up to MaxOrigLines lines, the last one with or
\* without its line break.
OriginalContents ==
    { JoinNL(ls) \o end : ls \in SeqsUpTo(OrigTexts, MaxOrigLines),
                          end \in { << >>, << NL >> } }

\* Lines of a diff: "@@ -1,2 +1,2 @@", "@@ -2 +2 @@", the malformed header
\* "@@ x", "+++ b/f", " a", "-a", "+b" and the blank line.
DiffLinePool ==
    { << "@", "@", " ", "-", "1", ",", "2", " ", "+", "1", ",", "2", " ", "@", "@" >>,
      << "@", "@", " ", "-", "2", " ", "+", "2", " ", "@", "@" >>,
      << "@", "@", " ", "x" >>,
      << "+", "+", "+", " ", "b", "/", "f" >>,
      << " ", "a" >>,
      << "-", "a" >>,
      << "+", "b" >>,
      << >> }

DiffContents == { JoinNL(ls) : ls \in SeqsUpTo(DiffLinePool, MaxDiffLines) }

----------------------------------------------------------------------------
(* The call. *)

None == << >>

Init ==
    /\ pc = "start"
    /\ diff_content \in DiffContents
    /\ original_content \in OriginalContents
    /\ filename = None
    /\ hunks = << >>
    /\ hunk_no = 0
    /\ original_lines = << >>
    /\ original_line_index = 0
    /\ original_start_line = 0
    /\ hunk_lines_index = 0
    /\ new_lines = << >>
    /\ mismatches_warnings = << >>
    /\ result = None

\* The returned tuple (its fourth element repeats the third).
Returned(success_message, warning_message, modified_content) ==
    << [ success_message  |-> success_message,
         warning_message  |-> warning_message,
         modified_content |-> modified_content ] >>

\* if not diff_lines: return None, "Error: Empty diff content provided.", None
ReturnEmptyDiff ==
    /\ pc = "start"
    /\ DiffLines(diff_content) = << >>
    /\ result' = Returned(None,
                     << [ kind |-> "Error: Empty diff content provided.",
                          header |-> << >>, warnings |-> << >> ] >>,
                     None)
    /\ pc' = "done"
    /\ UNCHANGED << diff_content, original_content, filename, hunks, hunk_no,
                    original_lines, original_line_index, original_start_line,
                    hunk_lines_index, new_lines, mismatches_warnings >>

\* The parse loop and the initialisation of the apply loop.
Parse ==
    /\ pc = "start"
    /\ DiffLines(diff_content) # << >>
    /\ LET parsed == ParseDiff(diff_content, filename) IN
         /\ hunks' = parsed.hunks
         /\ filename' = parsed.filename
    /\ original_lines' = IF original_content # << >>
                         THEN SplitLines(original_content, TRUE) ELSE << >>
    /\ original_line_index' = 0
    /\ new_lines' = << >>
    /\ mismatches_warnings' = << >>
    /\ hunk_no' = 1
    /\ pc' = "for_hunk"
    /\ UNCHANGED << diff_content, original_content, original_start_line,
                    hunk_lines_index, result >>

hunk == hunks[hunk_no]

\* header_match is None: the function returns.
ReturnInvalidHeader ==
    /\ pc = "for_hunk"
    /\ hunk_no <= Len(hunks)
    /\ ~HeaderMatch(hunk.header).ok
    /\ result' = Returned(None,
                     << [ kind |-> "Warning: Invalid hunk header. Skipping hunk.",
                          header |-> hunk.header, warnings |-> << >> ] >>,
                     None)
    /\ pc' = "done"
    /\ UNCHANGED << diff_content, original_content, filename, hunks, hunk_no,
                    original_lines, original_line_index, original_start_line,
                    hunk_lines_index, new_lines, mismatches_warnings >>

\* A hunk that moves the cursor to its own start (a mutant of the code).
CursorResetOnHunkEntry(cursor, start) == IF start >= 0 THEN start ELSE 0

\* The cursor is set once, before the loop over the hunks: a hunk starts
\* with the cursor where the hunk before it left it.
CursorOnHunkEntry(cursor, start) == cursor

\* The header matches: original_start_line becomes 0-indexed.
HunkStart ==
    /\ pc = "for_hunk"
    /\ hunk_no <= Len(hunks)
    /\ HeaderMatch(hunk.header).ok
    /\ original_start_line' = HeaderMatch(hunk.header).original_start_line - 1
    /\ original_line_index' = CursorOnHunkEntry(original_line_index, original_start_line')
    /\ pc' = "copy"
    /\ UNCHANGED << diff_content, original_content, filename, hunks, hunk_no,
                    original_lines, hunk_lines_index,
                    new_lines, mismatches_warnings, result >>

CopyCondition ==
    /\ original_line_index < original_start_line
    /\ original_line_index < Len(original_lines)

\* One iteration of "copy unchanged lines before the hunk".
CopyThrough ==
    /\ pc = "copy"
    /\ CopyCondition
    /\ new_lines' = Append(new_lines, original_lines[original_line_index + 1])
    /\ original_line_index' = original_line_index + 1
    /\ UNCHANGED << pc, diff_content, original_content, filename, hunks, hunk_no,
                    original_lines, original_start_line, hunk_lines_index,
                    mismatches_warnings, result >>

CopyDone ==
    /\ pc = "copy"
    /\ ~CopyCondition
    /\ hunk_lines_index' = 0
    /\ pc' = "walk"
    /\ UNCHANGED << diff_content, original_content, filename, hunks, hunk_no,
                    original_lines, original_line_index, original_start_line,
                    new_lines, mismatches_warnings, result >>

----------------------------------------------------------------------------
(* The walk over the lines of a hunk. *)

line == hunk.lines[hunk_lines_index + 1]

\* Exact comparison of a context line (a mutant of the code).
ContextAcceptsExact(cursor, l) ==
    /\ cursor < Len(original_lines)
    /\ RStripNL(original_lines[cursor + 1]) = RStripNL(Drop(l, 1))

\* original_line_index < len(original_lines) and is_line_similar(actual, expected)
ContextAccepts(cursor, l) ==
    /\ cursor < Len(original_lines)
    /\ is_line_similar(RStripNL(original_lines[cursor + 1]), RStripNL(Drop(l, 1)))

\* A matched context line emitted from the diff (a mutant of the code).
ContextEmittedFromDiff(cursor, l) == Drop(l, 1) \o << NL >>

\* new_lines.append(original_lines[original_line_index])
ContextEmitted(cursor, l) == original_lines[cursor + 1]

\* new_lines.append(line[1:] + '\n'), of a mismatched context line and of
\* an added line.
DiffLineEmitted(l) == Drop(l, 1) \o << NL >>

\* A removal compared with the fuzzy matcher (a mutant of the code).
RemovalMismatchFuzzy(cursor, l) ==
    /\ cursor < Len(original_lines)
    /\ ~is_line_similar(RStripNL(original_lines[cursor + 1]), RStripNL(Drop(l, 1)))

\* original_line_index < len(original_lines) and
\* original_lines[original_line_index].rstrip('\n') != line[1:].rstrip('\n')
RemovalMismatch(cursor, l) ==
    /\ cursor < Len(original_lines)
    /\ RStripNL(original_lines[cursor + 1]) # RStripNL(Drop(l, 1))

\* A removal that consumes a line only if there is one (a mutant of the code).
CursorAfterRemovalInRange(cursor) ==
    IF cursor < Len(original_lines) THEN cursor + 1 ELSE cursor

\* original_line_index += 1, in every case
CursorAfterRemoval(cursor) == cursor + 1

\* The text of a warning: its kind, '{line.strip()}' and the line number
\* original_start_line + 1 + hunk_lines_index.
Warning(kind, l) ==
    [ kind |-> kind, line |-> Strip(l),
      near |-> original_start_line + 1 + hunk_lines_index ]

IsContext(l) == StartsWith(l, << " " >>)
IsAdded(l)   == StartsWith(l, << "+" >>)
IsRemoved(l) == StartsWith(l, << "-" >>)

InWalk == pc = "walk" /\ hunk_lines_index < Len(hunk.lines)

ContextMatch ==
    /\ InWalk
    /\ IsContext(line)
    /\ ContextAccepts(original_line_index, line)
    /\ new_lines' = Append(new_lines, ContextEmitted(original_line_index, line))
    /\ original_line_index' = original_line_index + 1
    /\ hunk_lines_index' = hunk_lines_index + 1
    /\ UNCHANGED << pc, diff_content, original_content, filename, hunks, hunk_no,
                    original_lines, original_start_line, mismatches_warnings,
                    result >>

ContextMismatch ==
    /\ InWalk
    /\ IsContext(line)
    /\ ~ContextAccepts(original_line_index, line)
    /\ mismatches_warnings' =
           Append(mismatches_warnings, Warning("Context line mismatch", line))
    /\ new_lines' = Append(new_lines, DiffLineEmitted(line))
    /\ hunk_lines_index' = hunk_lines_index + 1
    /\ UNCHANGED << pc, diff_content, original_content, filename, hunks, hunk_no,
                    original_lines, original_line_index, original_start_line,
                    result >>

AddedLine ==
    /\ InWalk
    /\ ~IsContext(line)
    /\ IsAdded(line)
    /\ new_lines' = Append(new_lines, DiffLineEmitted(line))
    /\ hunk_lines_index' = hunk_lines_index + 1
    /\ UNCHANGED << pc, diff_content, original_content, filename, hunks, hunk_no,
                    original_lines, original_line_index, original_start_line,
                    mismatches_warnings, result >>

RemovedLine ==
    /\ InWalk
    /\ ~IsContext(line)
    /\ ~IsAdded(line)
    /\ IsRemoved(line)
    /\ mismatches_warnings' =
           IF RemovalMismatch(original_line_index, line)
           THEN Append(mismatches_warnings,
                       Warning("Removal line context mismatch", line))
           ELSE mismatches_warnings
    /\ original_line_index' = CursorAfterRemoval(original_line_index)
    /\ hunk_lines_index' = hunk_lines_index + 1
    /\ UNCHANGED << pc, diff_content, original_content, filename, hunks, hunk_no,
                    original_lines, original_start_line, new_lines, result >>

\* A line that starts with none of ' ', '+', '-' falls through the elifs.
OtherLine ==
    /\ InWalk
    /\ ~IsContext(line)
    /\ ~IsAdded(line)
    /\ ~IsRemoved(line)
    /\ hunk_lines_index' = hunk_lines_index + 1
    /\ UNCHANGED << pc, diff_content, original_content, filename, hunks, hunk_no,
                    original_lines, original_line_index, original_start_line,
                    new_lines, mismatches_warnings, result >>

WalkDone ==
    /\ pc = "walk"
    /\ hunk_lines_index >= Len(hunk.lines)
    /\ pc' = "flush"
    /\ UNCHANGED << diff_content, original_content, filename, hunks, hunk_no,
                    original_lines, original_line_index, original_start_line,
                    hunk_lines_index, new_lines, mismatches_warnings, result >>

----------------------------------------------------------------------------
(* "Copy any remaining lines after the last hunk": the while loop that     *)
(* ends the body of the loop over the hunks.                               *)

FlushLine ==
    /\ pc = "flush"
    /\ original_line_index < Len(original_lines)
    /\ new_lines' = Append(new_lines, original_lines[original_line_index + 1])
    /\ original_line_index' = original_line_index + 1
    /\ UNCHANGED << pc, diff_content, original_content, filename, hunks, hunk_no,
                    original_lines, original_start_line, hunk_lines_index,
                    mismatches_warnings, result >>

\* The body of the for loop ends: the next hunk, if any.
FlushDone ==
    /\ pc = "flush"
    /\ original_line_index >= Len(original_lines)
    /\ hunk_no' = hunk_no + 1
    /\ pc' = "for_hunk"
    /\ UNCHANGED << diff_content, original_content, filename, hunks,
                    original_lines, original_line_index, original_start_line,
                    hunk_lines_index, new_lines, mismatches_warnings, result >>

----------------------------------------------------------------------------
(* The returns after the loop over the hunks. *)

ReturnWarnings ==
    /\ pc = "for_hunk"
    /\ hunk_no > Len(hunks)
    /\ mismatches_warnings # << >>
    /\ result' = Returned(<< "Patch applied with warnings." >>,
                     << [ kind |-> "Patch applied with potential issues:",
                          header |-> << >>, warnings |-> mismatches_warnings ] >>,
                     << Join(new_lines) >>)
    /\ pc' = "done"
    /\ UNCHANGED << diff_content, original_content, filename, hunks, hunk_no,
                    original_lines, original_line_index, original_start_line,
                    hunk_lines_index, new_lines, mismatches_warnings >>

ReturnSuccess ==
    /\ pc = "for_hunk"
    /\ hunk_no > Len(hunks)
    /\ mismatches_warnings = << >>
    /\ result' = Returned(<< "Successfully applied patch." >>, None,
                          << Join(new_lines) >>)
    /\ pc' = "done"
    /\ UNCHANGED << diff_content, original_content, filename, hunks, hunk_no,
                    original_lines, original_line_index, original_start_line,
                    hunk_lines_index, new_lines, mismatches_warnings >>

Next ==
    \/ ReturnEmptyDiff
    \/ Parse
    \/ ReturnInvalidHeader
    \/ HunkStart
    \/ CopyThrough
    \/ CopyDone
    \/ ContextMatch
    \/ ContextMismatch
    \/ AddedLine
    \/ RemovedLine
    \/ OtherLine
    \/ WalkDone
    \/ FlushLine
    \/ FlushDone
    \/ ReturnWarnings
    \/ ReturnSuccess

Spec == Init /\ [][Next]_vars

----------------------------------------------------------------------------
(* The outcome of a call, as display_output reads the returned tuple: an   *)
(* error if the message contains "Error:" (of the messages of the model    *)
(* only the empty-diff message does: no text of the model's diffs has an   *)
(* "E"), a warning for any other message, else a success.                  *)

Done == pc = "done"

Status ==
    LET r == result[1] IN
    IF r.warning_message # None
          /\ r.warning_message[1].kind = "Error: Empty diff content provided."
    THEN "Error"
    ELSE IF r.warning_message # None THEN "Warning"
    ELSE IF r.success_message # None THEN "Success"
    ELSE "None"

OutputPresent == result[1].modified_content # None
Output == result[1].modified_content[1]

TypeOK ==
    /\ pc \in { "start", "for_hunk", "copy", "walk", "flush", "done" }
    /\ original_line_index \in Nat
    /\ hunk_lines_index \in Nat
    /\ (pc = "done") = (result # None)

----------------------------------------------------------------------------
(* Vocabulary of the properties. *)

Cursor == original_line_index

\* The text of an original line and of a diff line, without line break
\* and without marker.
OrigText(i) == RStripNL(original_lines[i])
DiffText(l) == Drop(l, 1)

OrigTexts1(from, to) == [ i \in 1..(to - from + 1) |-> OrigText(from + i - 1) ]

Parsed == pc # "start"

AllHeadersParse == \A i \in 1..Len(hunks) : HeaderMatch(hunks[i].header).ok

SomeHeaderMalformed == \E i \in 1..Len(hunks) : ~HeaderMatch(hunks[i].header).ok

WellFormedLine(l) == IsContext(l) \/ IsAdded(l) \/ IsRemoved(l)

\* The lines of a hunk that stand for an original line.
RECURSIVE OldSide(_)
OldSide(ls) ==
    IF ls = << >> THEN << >>
    ELSE IF IsContext(Head(ls)) \/ IsRemoved(Head(ls))
         THEN << DiffText(Head(ls)) >> \o OldSide(Tail(ls))
         ELSE OldSide(Tail(ls))

\* The lines of a hunk that stand for a line of the result.
RECURSIVE NewSide(_)
NewSide(ls) ==
    IF ls = << >> THEN << >>
    ELSE IF IsContext(Head(ls)) \/ IsAdded(Head(ls))
         THEN << DiffText(Head(ls)) >> \o NewSide(Tail(ls))
         ELSE NewSide(Tail(ls))

Min(a, b) == IF a < b THEN a ELSE b

\* The call has returned for a diff of one well-formed hunk, with header
\* start s >= 1, whose context and removal lines are the original lines
\* s, s+1, ..., in order.
SingleExactHunk ==
    /\ Done
    /\ Len(hunks) = 1
    /\ HeaderMatch(hunks[1].header).ok
    /\ \A i \in 1..Len(hunks[1].lines) : WellFormedLine(hunks[1].lines[i])
    /\ LET s == HeaderMatch(hunks[1].header).original_start_line
           k == Len(OldSide(hunks[1].lines))
       IN  /\ s >= 1
           /\ s + k - 1 <= Len(original_lines)
           /\ OldSide(hunks[1].lines) = OrigTexts1(s, s + k - 1)

\* The line of the hunk that the last step of the walk has processed.
PrevLine == hunks[hunk_no].lines[hunk_lines_index]

----------------------------------------------------------------------------
(* C1: for a non-empty diff without any hunk header, the call returns      *)
(* Success, no warnings, and the original content verbatim.                *)
C1_HeaderFreeDiffReturnsOriginal ==
    ( /\ Done
      /\ DiffLines(diff_content) # << >>
      /\ \A i \in 1..Len(DiffLines(diff_content)) :
             ~StartsWith(DiffLines(diff_content)[i], HunkMarker) )
    => /\ Status = "Success"
       /\ result[1].warning_message = None
       /\ OutputPresent
       /\ Output = original_content

(* C2: a malformed hunk header skips only its hunk: the call still ends    *)
(* with status Warning or Success and a present output.                    *)
C2_MalformedHeaderSkipsOnlyThatHunk ==
    (Done /\ DiffLines(diff_content) # << >> /\ SomeHeaderMalformed)
    => /\ Status \in { "Warning", "Success" }
       /\ OutputPresent

(* C3: the flush of the remaining original lines emits lines only after    *)
(* the last hunk of the diff has been walked, never after an earlier hunk. *)
C3_FlushOnlyAfterLastHunk ==
    (pc = "flush" /\ Cursor < Len(original_lines)) => hunk_no = Len(hunks)

(* C4: for a single well-formed hunk whose context and removal lines are   *)
(* the original lines s..s+k-1, the call returns Success without warnings  *)
(* and the output's lines are the original lines 1..s-1, the hunk's        *)
(* context and addition texts in order, then the original lines s+k..end.  *)
C4_SingleExactHunkOutput ==
    SingleExactHunk
    => LET s == HeaderMatch(hunks[1].header).original_start_line
           k == Len(OldSide(hunks[1].lines))
           n == Len(original_lines)
       IN  /\ Status = "Success"
           /\ mismatches_warnings = << >>
           /\ OutputPresent
           /\ SplitLines(Output, FALSE)
                = OrigTexts1(1, Min(s - 1, n))
                    \o NewSide(hunks[1].lines)
                    \o OrigTexts1(s + k, n)

(* C5: a hunk of context lines only, each identical to its original line,  *)
(* with the header start at the first of them, returns the original        *)
(* content unchanged.                                                      *)
C5_NoOpHunk ==
    /\ SingleExactHunk
    /\ hunks[1].lines # << >>
    /\ \A i \in 1..Len(hunks[1].lines) : IsContext(hunks[1].lines[i])

C5_NoOpHunkLeavesOriginal ==
    C5_NoOpHunk => OutputPresent /\ Output = original_content

\* A no-op hunk at the second line of an original without final line break.
C5_Witness ==
    /\ C5_NoOpHunk
    /\ HeaderMatch(hunks[1].header).original_start_line = 2
    /\ original_content[Len(original_content)] # NL

(* C6: when every header parses, each mismatching line (a context line     *)
(* that the line at the cursor does not match or that finds the cursor     *)
(* past the end; a removal line whose cursor is in range and whose text    *)
(* differs) adds exactly one warning, no other step adds any, and a call   *)
(* with at least one warning returns status Warning with an output.        *)
C6_Mismatching(l) ==
    \/ /\ IsContext(l)
       /\ \/ Cursor >= Len(original_lines)
          \/ ~is_line_similar(OrigText(Cursor + 1), DiffText(l))
    \/ /\ ~IsContext(l)
       /\ IsRemoved(l)
       /\ Cursor < Len(original_lines)
       /\ OrigText(Cursor + 1) # DiffText(l)

C6_WarningsExpected ==
    IF InWalk /\ C6_Mismatching(line)
    THEN Len(mismatches_warnings) + 1
    ELSE Len(mismatches_warnings)

C6_OneWarningPerMismatch ==
    [][ \/ /\ Len(mismatches_warnings') = C6_WarningsExpected
           /\ SubSeq(mismatches_warnings', 1, Len(mismatches_warnings))
                = mismatches_warnings
           /\ (pc' = "done" /\ mismatches_warnings # << >>)
              => /\ Status' = "Warning"
                 /\ OutputPresent'
                 /\ result'[1].warning_message[1].warnings = mismatches_warnings
        \/ ~(Parsed /\ AllHeadersParse) ]_vars

\* A call that returned with a context warning and a removal warning.
C6_Witness ==
    /\ Done /\ Parsed /\ AllHeadersParse
    /\ Status = "Warning"
    /\ \E i, j \in 1..Len(mismatches_warnings) :
          /\ mismatches_warnings[i].kind = "Context line mismatch"
          /\ mismatches_warnings[j].kind = "Removal line context mismatch"

(* C7: a returned output is the concatenation of the emitted lines and     *)
(* every emitted line ends with a line break.                              *)
C7_EveryEmittedLineEndsWithLineBreak ==
    (Done /\ OutputPresent)
    => /\ Output = Join(new_lines)
       /\ \A i \in 1..Len(new_lines) :
             new_lines[i] # << >> /\ new_lines[i][Len(new_lines[i])] = NL

(* C8: the cursor starts at 0 and every step leaves it unchanged or        *)
(* increases it by one; it is never reset, also not by a later hunk whose  *)
(* start is lower than the cursor.                                         *)
C8_CursorNeverDecreases ==
    /\ Cursor = 0
    /\ [][ Cursor' = Cursor \/ Cursor' = Cursor + 1 ]_vars

\* A later hunk is entered whose start lies before the cursor.
C8_Witness ==
    /\ pc = "copy"
    /\ hunk_no >= 2
    /\ original_start_line >= 0
    /\ original_start_line < Cursor

(* C9: a context line that the matcher accepts against the line at the     *)
(* cursor emits that original line and advances the cursor by one; any     *)
(* other context line records one warning, emits the diff's text as a new  *)
(* line and leaves the cursor unchanged.                                   *)
C9_ContextLine ==
    [][ (InWalk /\ IsContext(line))
        => IF /\ Cursor < Len(original_lines)
              /\ is_line_similar(OrigText(Cursor + 1), DiffText(line))
           THEN /\ new_lines' = Append(new_lines, original_lines[Cursor + 1])
                /\ Cursor' = Cursor + 1
                /\ mismatches_warnings' = mismatches_warnings
           ELSE /\ Len(mismatches_warnings') = Len(mismatches_warnings) + 1
                /\ new_lines' = Append(new_lines, DiffText(line) \o << NL >>)
                /\ Cursor' = Cursor ]_vars

\* A context line has been accepted against an original line of another
\* text, and the original's text was emitted.
C9_Witness ==
    /\ pc = "walk"
    /\ hunk_lines_index >= 1
    /\ IsContext(PrevLine)
    /\ mismatches_warnings = << >>
    /\ new_lines # << >>
    /\ new_lines[Len(new_lines)] = original_lines[Cursor]
    /\ RStripNL(new_lines[Len(new_lines)]) # DiffText(PrevLine)

(* C10: a removal line advances the cursor by exactly one and emits        *)
(* nothing, whether the original line is equal, different or missing; it   *)
(* records a warning only if the cursor is in range and the original line  *)
(* differs under exact equality.                                           *)
C10_RemovalLine ==
    [][ (InWalk /\ ~IsContext(line) /\ ~IsAdded(line) /\ IsRemoved(line))
        => /\ Cursor' = Cursor + 1
           /\ new_lines' = new_lines
           /\ IF Cursor < Len(original_lines)
                    /\ OrigText(Cursor + 1) # DiffText(line)
              THEN Len(mismatches_warnings') = Len(mismatches_warnings) + 1
              ELSE mismatches_warnings' = mismatches_warnings ]_vars

\* A removal line has found the cursor at or past the end: the cursor is
\* beyond the original and no warning was recorded.
C10_Witness ==
    /\ pc = "walk"
    /\ hunk_lines_index >= 1
    /\ IsRemoved(PrevLine)
    /\ Cursor > Len(original_lines)
    /\ mismatches_warnings = << >>

====
